---- MODULE Spec2Model ----
(***************************************************************************)
(* tg_searcher: the whoosh-backed message index (tg_searcher/indexer.py),  *)
(* the backend that feeds it from Telegram events and history backfill     *)
(* (tg_searcher/backend_bot.py) and the admin commands of the bot front    *)
(* end that reach it (tg_searcher/frontend_bot.py).                        *)
(*                                                                         *)
(* The committed index is the sequence of its documents in docnum order.   *)
(* Telegram ids are scaled down: a channel's marked id is                  *)
(* -(10000 + id) instead of -(10^12 + id).                                 *)
(***************************************************************************)
EXTENDS Integers, Sequences, FiniteSets, TLC

VARIABLES
    index,            \* Indexer.ix: the committed documents, in docnum order
    monitored_chats,  \* BackendBot.monitored_chats
    newest_msg,       \* BackendBot.newest_msg: share id -> url and post_time of the
                      \* IndexMsg stored there, NoMsg without one
    monitor_all,      \* BackendBotConfig.monitor_all
    bf,               \* the download_history task and its IndexWriter
    last,             \* what the last handler did: its name, error and lookup result
    schema,           \* the schema of the index in the index directory
    reply,            \* the answer of the last read command
    redis,            \* the query_text and query_chats keys of the result messages
    cfg,              \* BotFrontendConfig: private_mode, and whether admin_id is a username
    titles            \* the chat ids in ClientSession._id_to_title_table

vars ==
    <<index, monitored_chats, newest_msg, monitor_all, bf, last, schema, reply, redis, cfg,
      titles>>

-----------------------------------------------------------------------------
(* Bounds *)

MaxDocs == 2        \* documents in the index plus documents buffered by the writer
MaxMsgId == 3       \* the highest message id of a chat
MaxPage == 3        \* page numbers requested from search
MaxPageLen == 2     \* page lengths requested from search

-----------------------------------------------------------------------------
(* The world outside: chats, message texts *)

\* marked ids as telethon delivers them in events: a channel and a user chat
LiveChatIds == {-10012, 13}
\* ids the admin can type after /download_chat, /monitor_chat and /clear:
\* the marked id or the share id of a chat
AdminChatIds == {-10012, 12, 13}
\* ids the admin asks /download_chat for
DownloadChatIds == {-10012, 12}
\* the ids of the messages with text; message 1 of a chat is the service message
\* that records its creation
MsgIds == 2..MaxMsgId
\* /find_chat_id shows share ids
MonitorChatIds == {12, 13}

get_share_id(chat_id) ==
    IF chat_id >= 0 THEN chat_id
    ELSE IF -chat_id > 10000 THEN -chat_id - 10000 ELSE -chat_id

ShareIds == {get_share_id(c) : c \in AdminChatIds}

Words == {"foo", "bar"}
\* raw_text of a message, as the sequence of its words; <<>> is a message without text
\* " " is white space
Texts == {<<>>, <<"foo">>, <<"bar", " ">>}

RECURSIVE lstrip(_)
lstrip(s) == IF s # <<>> /\ Head(s) = " " THEN lstrip(Tail(s)) ELSE s

RECURSIVE rstrip(_)
rstrip(s) ==
    IF s # <<>> /\ s[Len(s)] = " " THEN rstrip(SubSeq(s, 1, Len(s) - 1)) ELSE s

\* BackendBot._extract_text: '' without raw_text, else the stripped text
extract_text(raw_text) == IF raw_text = <<>> THEN <<>> ELSE lstrip(rstrip(raw_text))

\* _get_sender_name: the display name when the sender is a User, else ''
get_sender_name(share_id) == IF share_id = 13 THEN "al" ELSE ""

\* event.date / tg_message.date: ids of a chat grow with time
MsgDate(msg_id) == msg_id

Url(share_id, msg_id) == <<"https://t.me/c", share_id, msg_id>>

IndexMsg(content, url, chat_id, post_time, sender) ==
    [content |-> content, url |-> url, chat_id |-> chat_id,
     post_time |-> post_time, sender |-> sender]

\* what the model keeps of an IndexMsg held in newest_msg
Newest(msg) == [url |-> msg.url, post_time |-> msg.post_time]
NoMsg == [url |-> <<>>, post_time |-> 0]

-----------------------------------------------------------------------------
(* whoosh: analysis of the fields *)

\* content=TEXT(analyzer=ChineseAnalyzer()): the terms of a text
ContentTerms(content) == {content[i] : i \in 1..Len(content)}

\* chat_id=TEXT(stored=True): str(chat_id) goes through the StandardAnalyzer,
\* whose tokenizer keeps word characters only: "-10012" is indexed as "10012"
ChatIdTerm(chat_id) == IF chat_id < 0 THEN -chat_id ELSE chat_id

\* Term('chat_id', str(c)) is not analyzed: "-10012" equals no indexed term
TermMatchesChat(c, doc) == c >= 0 /\ c = ChatIdTerm(doc.chat_id)

\* a schema as the set of its fields, each a name and a field type
IndexMsgSchema ==
    {<<"content", "TEXT">>, <<"url", "ID">>, <<"chat_id", "TEXT">>,
     <<"post_time", "DATETIME">>, <<"sender", "TEXT">>}

\* Schema.names()
names(sch) == {f[1] : f \in sch}

-----------------------------------------------------------------------------
(* The IndexWriter lock *)

NoTask ==
    [pc |-> "idle", chat_id |-> 0, min_id |-> 0, max_id |-> 0, cur |-> 0, buf |-> <<>>,
     lock |-> FALSE]

\* ix.writer() raises LockError while another writer holds index_WRITELOCK
Locked == bf.lock

RemoveDocs(ix, dead) ==
    LET keep == {i \in 1..Len(ix) : i \notin dead}
        F[n \in 0..Len(ix)] ==
            IF n = 0 THEN <<>>
            ELSE IF n \in keep THEN Append(F[n - 1], ix[n]) ELSE F[n - 1]
    IN F[Len(ix)]

DocsWithUrl(ix, url) == {i \in 1..Len(ix) : ix[i].url = url}
DocsOfChat(ix, c) == {i \in 1..Len(ix) : TermMatchesChat(c, ix[i])}

Range(s) == {s[i] : i \in 1..Len(s)}

Min(S) == CHOOSE x \in S : \A y \in S : x <= y

-----------------------------------------------------------------------------
(* Indexer (tg_searcher/indexer.py) on a committed index ix *)

\* writer.add_document: whoosh appends the document; a unique field is only
\* looked at by update_document
add_document(ix, message) == Append(ix, message)

delete_chat(ix, url) ==
    RemoveDocs(ix, {i \in 1..Len(ix) : \E j \in DocsWithUrl(ix, url) :
                                          ix[i].chat_id = ix[j].chat_id})

\* writer.delete_by_term('url', url): every document with that url
delete(ix, url) == RemoveDocs(ix, DocsWithUrl(ix, url))

\* searcher.document(url=url): the first document with that url
document(ix, url) == ix[Min(DocsWithUrl(ix, url))]

\* writer.update_document(**msg_dict): whoosh 2.7.4 deletes the document that
\* searcher.document_number(url=...) finds, i.e. the first one, and adds the new one
update_document(ix, msg_dict) ==
    Append(RemoveDocs(ix, {Min(DocsWithUrl(ix, msg_dict.url))}), msg_dict)

update_drops_sender(ix, content, url) ==
    IF DocsWithUrl(ix, url) = {} THEN ix
    ELSE update_document(ix, [document(ix, url) EXCEPT !.content = content,
                                                        !.sender = ""])

update_keeps_content(ix, content, url) ==
    IF DocsWithUrl(ix, url) = {} THEN ix
    ELSE update_document(ix, document(ix, url))

update_upsert(ix, content, url) ==
    IF DocsWithUrl(ix, url) = {}
    THEN add_document(ix, IndexMsg(content, url, url[2], url[3], ""))
    ELSE update_document(ix, [document(ix, url) EXCEPT !.content = content])

\* Indexer.update once the writer is open
update(ix, content, url) ==
    IF DocsWithUrl(ix, url) = {} THEN ix
    ELSE update_document(ix, [document(ix, url) EXCEPT !.content = content])

\* Indexer.list_indexed_chats: the terms of the chat_id field
list_indexed_chats(ix) == {ChatIdTerm(ix[i].chat_id) : i \in 1..Len(ix)}

\* searcher.document_numbers(chat_id=str(chat_id)), as used by count_by_query
count_by_query(ix, chat_id) == Cardinality(DocsOfChat(ix, chat_id))

\* BackendBot.is_empty(chat_id)
is_empty(ix, chat_id) == DocsOfChat(ix, chat_id) = {}

\* BackendBot.is_empty(): ix.is_empty()
is_index_empty(ix) == ix = <<>>

-----------------------------------------------------------------------------
(* Indexer.search *)

\* in_chats: Optional[List[int]]
NoChats == [given |-> FALSE, ids |-> <<>>]
Chats(ids) == [given |-> TRUE, ids |-> ids]
InChats == {NoChats, Chats(<<>>), Chats(<<12>>), Chats(<<13>>), Chats(<<10012>>),
            Chats(<<-10012>>), Chats(<<12, 13>>)}

\* q_filter = in_chats and Or([Term('chat_id', str(chat_id)) ...]): None and []
\* are both falsy and leave the search unfiltered
FilterAllows(in_chats, doc) ==
    \/ ~in_chats.given
    \/ in_chats.ids = <<>>
    \/ \E k \in 1..Len(in_chats.ids) : TermMatchesChat(in_chats.ids[k], doc)

\* query strings with a field-qualified clause, and with an unbalanced bracket
FieldQueries == {"sender:al"}
Malformed == {"(foo"}
QueryStrs == Words \cup FieldQueries \cup Malformed

\* query_parser.parse(q_str) of QueryParser('content', IndexMsg.schema): a bare
\* word is a term of content, name:word a term of that field; the parser raises
\* no error on an unbalanced bracket, it parses what is left
parse(q_str) ==
    CASE q_str = "sender:al" -> [fieldname |-> "sender", text |-> "al"]
      [] q_str = "(foo" -> [fieldname |-> "content", text |-> "foo"]
      [] OTHER -> [fieldname |-> "content", text |-> q_str]

\* sender=TEXT(stored=True): the terms of the sender name
SenderTerms(sender) == IF sender = "" THEN {} ELSE {sender}

FieldTerms(doc, fieldname) ==
    IF fieldname = "sender" THEN SenderTerms(doc.sender) ELSE ContentTerms(doc.content)

\* the documents the parsed query matches under the chat filter
Matching(ix, q_str, in_chats) ==
    {i \in 1..Len(ix) :
        /\ parse(q_str).text \in FieldTerms(ix[i], parse(q_str).fieldname)
        /\ FilterAllows(in_chats, ix[i])}

Before_oldest_first(ix, i, j) ==
    \/ ix[i].post_time < ix[j].post_time
    \/ ix[i].post_time = ix[j].post_time /\ i <= j

\* sortedby='post_time', reverse=True: newest first, equal times in docnum order
Before(ix, i, j) ==
    \/ ix[i].post_time > ix[j].post_time
    \/ ix[i].post_time = ix[j].post_time /\ i <= j

RECURSIVE Sorted(_, _)
Sorted(ix, docs) ==
    IF docs = {} THEN <<>>
    ELSE LET first == CHOOSE i \in docs : \A j \in docs : Before(ix, i, j)
         IN  <<first>> \o Sorted(ix, docs \ {first})

Ceil(n, d) == (n + d - 1) \div d

\* a Python slice seq[lo:hi] with 0 <= lo
Slice(seq, lo, hi) ==
    IF hi <= lo THEN <<>>
    ELSE SubSeq(seq, lo + 1, IF hi < Len(seq) THEN hi ELSE Len(seq))

search_short_page(ix, q_str, in_chats, page_len, page_num) ==
    LET results == Sorted(ix, Matching(ix, q_str, in_chats))
        top_n == Slice(results, 0, page_num * page_len)
        total == Len(results)
        pagecount == Ceil(total, page_len)
        pagenum == IF pagecount < page_num THEN pagecount ELSE page_num
        offset == (pagenum - 1) * page_len
        pagelen == IF offset + page_len > total THEN total - offset ELSE page_len
    IN  [hits |-> IF offset < 0 THEN <<>> ELSE Slice(top_n, offset, offset + pagelen),
         is_last_page |-> (pagelen < page_len),
         total_results |-> total]

\* whoosh's ResultsPage over searcher.search(q, limit=page_num*page_len, ...):
\* pagenum = min(pagecount, page_num), the page that starts at
\* (pagenum - 1) * page_len; the hits are docnums of ix
search(ix, q_str, in_chats, page_len, page_num) ==
    LET results == Sorted(ix, Matching(ix, q_str, in_chats))
        top_n == Slice(results, 0, page_num * page_len)
        total == Len(results)
        pagecount == Ceil(total, page_len)
        pagenum == IF pagecount < page_num THEN pagecount ELSE page_num
        offset == (pagenum - 1) * page_len
        pagelen == IF offset + page_len > total THEN total - offset ELSE page_len
    IN  [hits |-> IF offset < 0 THEN <<>> ELSE Slice(top_n, offset, offset + pagelen),
         is_last_page |-> (pagecount = 0 \/ pagenum = pagecount),
         total_results |-> total]

\* highlighter.highlight_hit(msg, 'content'): the tokens of the stored content,
\* those that are terms of the query in the field content marked; without a
\* marked token there is no fragment and the output is ''
highlight_hit(msg, q_str) ==
    LET words == IF parse(q_str).fieldname = "content" THEN {parse(q_str).text} ELSE {}
    IN  IF ContentTerms(msg.content) \cap words = {} THEN <<>>
        ELSE [k \in 1..Len(msg.content) |->
                 [text |-> msg.content[k], matched |-> msg.content[k] \in words]]

\* hits = [SearchHit(IndexMsg(**msg), highlight_hit(msg, 'content')) ...]
SearchHits(ix, q_str, hits) ==
    [k \in 1..Len(hits) |->
        [msg |-> ix[hits[k]], highlighted |-> highlight_hit(ix[hits[k]], q_str)]]

-----------------------------------------------------------------------------
(* BackendBot (tg_searcher/backend_bot.py) *)

\* (await self.bot.get_me()).id: the id of the bot, which is the id of the chat
\* between the session's user and the bot
BotChatId == 14

\* BackendBot.excluded_chats once BotFrontend.start has added the bot's id
excluded_chats == {BotChatId}

should_monitor_not_excluded(chat_id) ==
    IF monitor_all THEN TRUE
    ELSE get_share_id(chat_id) \in monitored_chats

\* BackendBot._should_monitor
should_monitor(chat_id) ==
    IF monitor_all THEN get_share_id(chat_id) \notin excluded_chats
    ELSE get_share_id(chat_id) \in monitored_chats

\* last: the handler, the error it raised, and whether its lookup found a document
Done(op, err, found) == [op |-> op, err |-> err, found |-> found]

NoReply == [kind |-> "none"]

Room == Len(index) + Len(bf.buf) < MaxDocs

\* BotFrontendConfig as the front end is started by default
DefaultCfg == [private_mode |-> FALSE, admin_by_name |-> FALSE]

\* refresh_translate_table: the table holds the ids of the dialogs of the session
Dialogs == {12, 13}

\* ClientSession.translate_chat_id: a chat id that is not in the table is added
translate_chat_id(table, chat_id) == table \cup {chat_id}

\* the table once the titles of the chat ids in use have been asked for
KnownTitles == Dialogs \cup {-10012, 10012, BotChatId}

Init ==
    /\ index = <<>>
    /\ monitored_chats = {}
    /\ newest_msg = [s \in ShareIds |-> NoMsg]
    /\ monitor_all = FALSE
    /\ bf = NoTask
    /\ last = Done("start", "none", FALSE)
    /\ schema = IndexMsgSchema
    /\ reply = NoReply
    /\ redis = <<>>
    /\ cfg = DefaultCfg
    /\ titles = KnownTitles

\* Telegram numbers the messages of a chat upwards: a new message has an id above
\* every message of the chat the program has seen
IsNew(share_id, msg_id) ==
    /\ newest_msg[share_id].post_time < MsgDate(msg_id)
    /\ \A d \in Range(index \o bf.buf) : d.url[2] = share_id => d.url[3] < msg_id

\* @session.on(events.NewMessage()) client_message_handler
NewMessage(chat_id, msg_id, raw_text) ==
    LET share_id == get_share_id(chat_id)
        msg == IndexMsg(extract_text(raw_text), Url(share_id, msg_id), share_id,
                        MsgDate(msg_id), get_sender_name(share_id))
    IN  /\ IsNew(share_id, msg_id)
        /\ UNCHANGED <<monitored_chats, monitor_all, schema, reply, redis, cfg, titles, bf>>
        /\ IF should_monitor(chat_id) /\ extract_text(raw_text) # <<>>
           THEN /\ newest_msg' = [newest_msg EXCEPT ![share_id] = Newest(msg)]
                /\ IF Locked
                   THEN /\ index' = index
                        /\ last' = Done("new_message", "LockError", FALSE)
                   ELSE /\ Room
                        /\ index' = add_document(index, msg)
                        /\ last' = Done("new_message", "none", FALSE)
           ELSE /\ UNCHANGED <<index, newest_msg>>
                /\ last' = Done("other", "none", FALSE)

\* @session.on(events.MessageEdited()) client_message_update_handler
MessageEdited(chat_id, msg_id, raw_text) ==
    LET share_id == get_share_id(chat_id)
        url == Url(share_id, msg_id)
        found == DocsWithUrl(index, url) # {}
    IN  /\ UNCHANGED <<monitored_chats, newest_msg, monitor_all, schema, reply, redis, cfg, titles, bf>>
        /\ IF should_monitor(chat_id) /\ extract_text(raw_text) # <<>>
           THEN IF found /\ Locked
                THEN /\ index' = index
                     /\ last' = Done("update", "LockError", TRUE)
                ELSE /\ index' = update(index, extract_text(raw_text), url)
                     /\ last' = Done("update", "none", found)
           ELSE /\ index' = index
                /\ last' = Done("other", "none", FALSE)

DeleteAll_deferred(ix, share_id, ids) == ix

\* the loop of client_message_delete_handler over event.deleted_ids
RECURSIVE DeleteAll(_, _, _)
DeleteAll(ix, share_id, ids) ==
    IF ids = {} THEN ix
    ELSE LET m == Min(ids)
         IN  DeleteAll(delete(ix, Url(share_id, m)), share_id, ids \ {m})

\* @session.on(events.MessageDeleted()) client_message_delete_handler;
\* has_chat = FALSE is an event without chat_id
MessageDeleted(has_chat, chat_id, deleted_ids) ==
    LET share_id == get_share_id(chat_id)
        found == \E m \in deleted_ids : DocsWithUrl(index, Url(share_id, m)) # {}
    IN  /\ deleted_ids # {}
        /\ UNCHANGED <<monitored_chats, newest_msg, monitor_all, schema, reply, redis, cfg, titles, bf>>
        /\ IF has_chat /\ should_monitor(chat_id)
           THEN IF Locked
                THEN /\ index' = index
                     /\ last' = Done("delete", "LockError", found)
                ELSE /\ index' = DeleteAll(index, share_id, deleted_ids)
                     /\ last' = Done("delete", "none", found)
           ELSE /\ index' = index
                /\ last' = Done("other", "none", FALSE)

-----------------------------------------------------------------------------
(* History backfill: /download_chat (frontend_bot.py) and                  *)
(* BackendBot.download_history                                             *)

DefaultMinId == 1
DefaultMaxId == 1073741824

\* the ranges the admin asks for: the default one and explicit ones
MinIds == {DefaultMinId}
MaxIds == {DefaultMaxId, MaxMsgId + 1}

\* iter_messages(min_id, max_id) yields the messages with ids strictly between
\* the two, newest first; the chat has no id above MaxMsgId
FirstId(max_id) == IF max_id - 1 < MaxMsgId THEN max_id - 1 ELSE MaxMsgId

\* BotFrontend._download_history up to the first await of download_history
DownloadChat(chat_id, min_id, max_id) ==
    LET share_id == get_share_id(chat_id) IN
    /\ UNCHANGED <<index, newest_msg, monitor_all, schema, reply, redis, cfg>>
    /\ titles' = translate_chat_id(titles, chat_id)
    /\ IF min_id = DefaultMinId /\ max_id = DefaultMaxId /\ ~is_empty(index, chat_id)
       THEN /\ UNCHANGED <<monitored_chats, bf>>
            /\ last' = Done("download", "NotEmpty", FALSE)
       ELSE IF Locked
       THEN /\ UNCHANGED <<monitored_chats, bf>>
            /\ last' = Done("download", "LockError", FALSE)
       ELSE /\ bf.pc # "run"
            /\ bf' = [pc |-> "run", chat_id |-> chat_id, min_id |-> min_id,
                      max_id |-> max_id, cur |-> FirstId(max_id), buf |-> <<>>,
                      lock |-> TRUE]
            /\ monitored_chats' = monitored_chats \cup {share_id}
            /\ last' = Done("download", "none", FALSE)

\* one round of the loop of download_history over a message with text raw_text
BackfillStep(raw_text) ==
    LET share_id == get_share_id(bf.chat_id)
        msg == IndexMsg(extract_text(raw_text), Url(share_id, bf.cur), bf.chat_id,
                        MsgDate(bf.cur), get_sender_name(share_id))
    IN  /\ bf.pc = "run"
        /\ bf.cur > bf.min_id
        /\ UNCHANGED <<index, monitored_chats, monitor_all, schema, reply, redis, cfg, titles>>
        /\ IF extract_text(raw_text) # <<>>
           THEN /\ Room
                /\ bf' = [bf EXCEPT !.cur = @ - 1, !.buf = add_document(@, msg)]
                /\ newest_msg' = [newest_msg EXCEPT ![share_id] = Newest(msg)]
           ELSE /\ bf' = [bf EXCEPT !.cur = @ - 1]
                /\ newest_msg' = newest_msg
        /\ last' = Done("other", "none", FALSE)

Commit_last(ix, buf) == IF buf = <<>> THEN ix ELSE Append(ix, buf[Len(buf)])

\* writer.commit(): the buffered documents become a segment of the index
Commit(ix, buf) == ix \o buf

\* writer.commit() at the end of download_history; last.found tells whether
\* more than one document was committed
BackfillCommit ==
    /\ bf.pc = "run"
    /\ bf.cur <= bf.min_id
    /\ UNCHANGED <<monitored_chats, newest_msg, monitor_all, schema, reply, redis, cfg, titles>>
    /\ \/ /\ bf.lock
          /\ index' = Commit(index, bf.buf)
          /\ last' = Done("commit", "none", Len(bf.buf) > 1)
       \/ \* the index directory was removed under the writer (Indexer._clear)
          /\ ~bf.lock
          /\ \/ /\ index' = Commit(index, bf.buf)
                /\ last' = Done("commit", "none", Len(bf.buf) > 1)
             \/ /\ index' = index
                /\ last' = Done("commit", "OSError", FALSE)
    /\ bf' = NoTask

\* an exception out of iter_messages, get_sender or call_back: download_history
\* is left without commit() or cancel(), the writer keeps its lock
BackfillFail ==
    /\ bf.pc = "run"
    /\ bf.cur > bf.min_id
    /\ bf' = [NoTask EXCEPT !.pc = "dead", !.lock = bf.lock]
    /\ last' = Done("backfill", "Exception", FALSE)
    /\ UNCHANGED <<index, monitored_chats, newest_msg, monitor_all, schema, reply, redis, cfg, titles>>

\* the writer of a failed download_history is unreachable once its exception is
\* dropped; when the interpreter frees it, the finalizer of its file lock
\* releases index_WRITELOCK and the buffered documents are gone
WriterFinalized ==
    /\ bf.pc = "dead"
    /\ bf' = NoTask
    /\ last' = Done("other", "none", FALSE)
    /\ UNCHANGED <<index, monitored_chats, newest_msg, monitor_all, schema, reply, redis, cfg, titles>>

-----------------------------------------------------------------------------
(* /clear and /monitor_chat *)

ClearLists == {<<c>> : c \in AdminChatIds} \cup {<<12, 12>>, <<12, 13>>}

\* the second loop of BackendBot.clear: set.remove raises KeyError
RECURSIVE RemoveEach(_, _)
RemoveEach(chats, chat_ids) ==
    IF chat_ids = <<>> THEN [chats |-> chats, err |-> "none"]
    ELSE IF Head(chat_ids) \notin chats THEN [chats |-> chats, err |-> "KeyError"]
    ELSE RemoveEach(chats \ {Head(chat_ids)}, Tail(chat_ids))

\* BackendBot.clear(chat_ids) with a list
ClearChats(chat_ids) ==
    LET ids == {chat_ids[i] : i \in 1..Len(chat_ids)}
        removed == RemoveEach(monitored_chats, chat_ids)
    IN  /\ chat_ids # <<>>
        /\ UNCHANGED <<newest_msg, monitor_all, schema, reply, redis, cfg, bf>>
        /\ IF Locked
           THEN /\ UNCHANGED <<index, monitored_chats, titles>>
                /\ last' = Done("clear", "LockError", FALSE)
           ELSE /\ index' = RemoveDocs(index, UNION {DocsOfChat(index, c) : c \in ids})
                /\ monitored_chats' = removed.chats
                /\ last' = Done("clear", removed.err, FALSE)
                /\ titles' = IF removed.err = "none" THEN titles \cup ids ELSE titles

\* BackendBot.clear() without chat ids: Indexer._clear removes the index
\* directory, the lock file of an open writer with it, and creates a new index
ClearAll ==
    /\ index' = <<>>
    /\ monitored_chats' = {}
    /\ bf' = IF bf.pc = "dead" THEN NoTask ELSE [bf EXCEPT !.lock = FALSE]
    /\ last' = Done("clear_all", "none", FALSE)
    /\ UNCHANGED <<newest_msg, monitor_all, schema, reply, redis, cfg, titles>>

\* /monitor_chat
MonitorChat(chat_id) ==
    /\ monitored_chats' = monitored_chats \cup {chat_id}
    /\ last' = Done("other", "none", FALSE)
    /\ UNCHANGED <<index, newest_msg, monitor_all, schema, reply, redis, cfg, titles, bf>>

-----------------------------------------------------------------------------

Next ==
    \/ \E c \in LiveChatIds, m \in MsgIds, t \in Texts : NewMessage(c, m, t)
    \/ \E c \in LiveChatIds, m \in MsgIds, t \in Texts : MessageEdited(c, m, t)
    \/ \E h \in BOOLEAN, c \in LiveChatIds, ids \in SUBSET MsgIds :
          MessageDeleted(h, c, ids)
    \/ \E c \in DownloadChatIds, lo \in MinIds, hi \in MaxIds : DownloadChat(c, lo, hi)
    \/ \E t \in Texts : BackfillStep(t)
    \/ BackfillCommit
    \/ BackfillFail
    \/ WriterFinalized
    \/ \E cs \in ClearLists : ClearChats(cs)
    \/ ClearAll
    \/ \E c \in MonitorChatIds : MonitorChat(c)

Spec == Init /\ [][Next]_vars

-----------------------------------------------------------------------------
(* The live handlers in both monitoring modes, the chat with the bot among  *)
(* the chats of the session                                                 *)

SessionChatIds == {13, BotChatId}

InitModes ==
    /\ index = <<>>
    /\ monitored_chats = {}
    /\ newest_msg = [s \in ShareIds \cup {BotChatId} |-> NoMsg]
    /\ monitor_all \in BOOLEAN
    /\ bf = NoTask
    /\ last = Done("start", "none", FALSE)
    /\ schema = IndexMsgSchema
    /\ reply = NoReply
    /\ redis = <<>>
    /\ cfg = DefaultCfg
    /\ titles = KnownTitles

NextModes ==
    \/ \E c \in SessionChatIds, m \in MsgIds, t \in Texts : NewMessage(c, m, t)
    \/ \E c \in SessionChatIds, m \in MsgIds, t \in Texts : MessageEdited(c, m, t)
    \/ \E h \in BOOLEAN, c \in SessionChatIds, ids \in SUBSET MsgIds :
          MessageDeleted(h, c, ids)
    \/ \E c \in SessionChatIds : MonitorChat(c)

SpecModes == InitModes /\ [][NextModes]_vars

-----------------------------------------------------------------------------
(* Start of the program on an index directory: Indexer.__init__ and         *)
(* BackendBot.__init__; the /random command                                 *)

\* the schema of an earlier revision (src/src/indexer.py): no sender, chat_id stored only
OldSchema ==
    {<<"content", "TEXT">>, <<"url", "ID">>, <<"chat_id", "STORED">>,
     <<"post_time", "DATETIME">>}

\* the fields of IndexMsg.schema with chat_id stored only
StoredChatIdSchema ==
    (IndexMsgSchema \ {<<"chat_id", "TEXT">>}) \cup {<<"chat_id", "STORED">>}

\* a directory without index
NoIndex == {}

DiskSchemas == {NoIndex, IndexMsgSchema, OldSchema, StoredChatIdSchema}

\* documents an earlier run left in the directory; under another schema the model
\* keeps their shape, only their number and identity matter
StoredDocs ==
    {IndexMsg(<<"foo">>, Url(12, 2), 12, 2, ""),
     IndexMsg(<<"foo">>, Url(12, 2), -10012, 2, ""),
     IndexMsg(<<"bar">>, Url(13, 3), 13, 3, "al")}

StoredIndexes == UNION {[1..n -> StoredDocs] : n \in 0..MaxDocs}

InitStore ==
    /\ schema \in DiskSchemas
    /\ index \in StoredIndexes
    /\ schema = NoIndex => index = <<>>
    /\ monitored_chats = {}
    /\ newest_msg = [s \in ShareIds |-> NoMsg]
    /\ monitor_all = FALSE
    /\ bf = NoTask
    /\ last = Done("stopped", "none", FALSE)
    /\ reply = NoReply
    /\ redis = <<>>
    /\ cfg = DefaultCfg
    /\ titles = KnownTitles

OpenedIndex_keeps(ix, from_scratch) == ix

\* if from_scratch: _clear(), which removes the directory and creates an index
OpenedIndex(ix, from_scratch) == IF from_scratch THEN <<>> ELSE ix

\* open_dir if an index exists in the directory, else create_in with IndexMsg.schema
OpenedSchema(sch, from_scratch) ==
    IF from_scratch \/ sch = NoIndex THEN IndexMsgSchema ELSE sch

\* Indexer.__init__ followed by BackendBot.__init__; last.found is from_scratch.
\* The assert compares the reprs of the bound methods schema.names, which show
\* the field names. list_indexed_chats reads the terms of chat_id: a reader of a
\* non-empty index raises TermNotFound for a field that is not indexed, if it
\* does not the listing is empty
Open(from_scratch) ==
    LET ix == OpenedIndex(index, from_scratch)
        sch == OpenedSchema(schema, from_scratch)
    IN  /\ index' = ix
        /\ schema' = sch
        /\ bf' = NoTask
        /\ newest_msg' = [s \in ShareIds |-> NoMsg]
        /\ reply' = NoReply
        /\ UNCHANGED <<monitor_all, redis, cfg, titles>>
        /\ IF names(sch) # names(IndexMsgSchema)
           THEN /\ last' = Done("open", "AssertionError", from_scratch)
                /\ monitored_chats' = {}
           ELSE IF <<"chat_id", "TEXT">> \notin sch
           THEN /\ monitored_chats' = {}
                /\ \/ last' = Done("open", "none", from_scratch)
                   \/ ix # <<>> /\ last' = Done("open", "TermNotFound", from_scratch)
           ELSE /\ last' = Done("open", "none", from_scratch)
                /\ monitored_chats' = list_indexed_chats(ix)

\* the constructors returned: the bots are started and answer commands
Serving == last.op # "stopped" /\ ~(last.op = "open" /\ last.err # "none")

retrieve_random_document_blank(ix) ==
    IF ix = <<>> THEN {IndexMsg(<<>>, <<>>, 0, 0, "")} ELSE {ix[i] : i \in 1..Len(ix)}

\* Indexer.retrieve_random_document: the documents random.choice can return;
\* of an empty list it raises IndexError
retrieve_random_document(ix) == {ix[i] : i \in 1..Len(ix)}

\* /random in _normal_msg_handler
RandomCmd ==
    /\ Serving
    /\ UNCHANGED <<index, monitored_chats, newest_msg, monitor_all, bf, schema, redis, cfg>>
    /\ IF retrieve_random_document(index) = {}
       THEN /\ last' = Done("random", "IndexError", FALSE)
            /\ reply' = [kind |-> "empty"]
            /\ UNCHANGED titles
       ELSE \E msg \in retrieve_random_document(index) :
               /\ last' = Done("random", "none", TRUE)
               /\ reply' = [kind |-> "random", msg |-> msg]
               /\ titles' = translate_chat_id(titles, msg.chat_id)

PageLens == 1..MaxPageLen
Pages == 1..MaxPage

\* self._cfg.page_len
page_len == MaxPageLen

\* result messages whose keys the model keeps
MaxSearches == 2

\* _query_selected_chat: None unless the message replies to a select_chat message,
\* whose buttons /chats makes of monitored_chats
SelectedChats == {NoChats} \cup {Chats(<<c>>) : c \in monitored_chats}

\* what the front end shows of a SearchResult
Results(ix, q, chats, page_num) ==
    LET result == search(ix, q, chats, page_len, page_num)
    IN  [kind |-> "results", page |-> page_num,
         hits |-> SearchHits(ix, q, result.hits),
         is_last_page |-> result.is_last_page, total |-> result.total_results]

\* _render_response_text asks for the title of the chat of every hit
Rendered(table, shown) == table \cup {shown.hits[k].msg.chat_id : k \in 1..Len(shown.hits)}

\* the user cfg.admin names by id or by username; start() resolves it to
\* self._admin, the id of the private chat of the admin with the bot
AdminId == 21

\* the users who write to the bot: the admin and another user
Senders == {AdminId, 23}

\* a group the bot is a member of
GroupChatId == -10031

\* the chats in which users write to the bot: their private chats and the group
BotChats == Senders \cup {GroupChatId}

\* str(chat_id) and int(s)
str(n) == [str |-> n]
int(s) == s.str

\* ','.join(map(str, chats)): the parts of the joined string
join(chats) == [k \in 1..Len(chats) |-> str(chats[k])]

\* chats and [int(chat_id) for chat_id in chats.split(',')]: None and '' are
\* falsy and stay as they are, which search takes as no filter
split_ints(stored) ==
    IF stored = <<>> THEN NoChats
    ELSE Chats([k \in 1..Len(stored) |-> int(stored[k])])

RedisKey_no_chat(bot_chat_id, msg_id) == <<0, msg_id>>

\* the part {bot_chat_id}:{msg_id} of the keys of one result message
RedisKey(bot_chat_id, msg_id) == <<bot_chat_id, msg_id>>

\* redis.get of query_text and query_chats: None, here "" and <<>>, without the key
redis_get(r, key) ==
    IF key \in DOMAIN r THEN r[key] ELSE [query_text |-> "", query_chats |-> <<>>]

\* the two redis.set of _search: query_text always, query_chats only 'if chats'
redis_set(r, key, q, chats) ==
    LET entry == [query_text |-> q,
                  query_chats |-> IF chats.given /\ chats.ids # <<>>
                                  THEN join(chats.ids)
                                  ELSE redis_get(r, key).query_chats]
    IN  [k \in DOMAIN r \cup {key} |-> IF k = key THEN entry ELSE r[k]]

\* msg.id of event.respond: Telegram numbers the messages of a chat upwards
NewMsgId(r, bot_chat_id) == 1 + Cardinality({k \in DOMAIN r : k[1] = bot_chat_id})

\* _search under bot_message_handler, for a text message (slash = FALSE) or
\* '/search' with or without a query after a space, sent in bot_chat_id:
\* q.index(' ') raises ValueError without a space, and the handler replies the
\* error
SearchCmd(bot_chat_id, slash, has_text, q, chats) ==
    /\ Serving
    /\ slash \/ has_text
    /\ Cardinality(DOMAIN redis) < MaxSearches
    /\ UNCHANGED <<index, monitored_chats, newest_msg, monitor_all, bf, schema, cfg>>
    /\ IF is_index_empty(index)
       THEN /\ reply' = [kind |-> "empty"]
            /\ last' = Done("search", "none", FALSE)
            /\ UNCHANGED <<redis, titles>>
       ELSE IF slash /\ ~has_text
       THEN /\ reply' = [kind |-> "error", err |-> "ValueError"]
            /\ last' = Done("search", "ValueError", FALSE)
            /\ UNCHANGED <<redis, titles>>
       ELSE /\ last' = Done("search", "none", TRUE)
            /\ redis' = redis_set(redis, RedisKey(bot_chat_id, NewMsgId(redis, bot_chat_id)),
                                  q, chats)
            /\ reply' = Results(index, q, chats, 1)
            /\ titles' = Rendered(titles, reply')

\* _callback_handler for search_page=page_num, pressed on the result message
\* msg_id of bot_chat_id
SearchPage(bot_chat_id, msg_id, page_num) ==
    LET stored == redis_get(redis, RedisKey(bot_chat_id, msg_id))
    IN  /\ Serving
        /\ RedisKey(bot_chat_id, msg_id) \in DOMAIN redis
        /\ UNCHANGED <<index, monitored_chats, newest_msg, monitor_all, bf, schema, redis, cfg>>
        /\ reply' = IF stored.query_text # ""
                    THEN Results(index, stored.query_text, split_ints(stored.query_chats),
                                 page_num)
                    ELSE reply
        /\ titles' = IF stored.query_text # "" THEN Rendered(titles, reply') ELSE titles
        /\ last' = Done("search_page", "none", stored.query_text # "")

NextStore ==
    \/ \E from_scratch \in BOOLEAN : Open(from_scratch)
    \/ RandomCmd

SpecStore == InitStore /\ [][NextStore]_vars

-----------------------------------------------------------------------------
(* bot_message_handler and the handlers it hands a message to               *)

\* kw.get('private_whitelist'): the share id of the group
ConfigWhitelist == {get_share_id(GroupChatId)}

\* the ids of BotFrontendConfig.private_whitelist: the configured ones and
\* self.admin as configured; a username in the set equals no id
private_whitelist(c) ==
    ConfigWhitelist \cup (IF c.admin_by_name THEN {} ELSE {AdminId})

\* the test of private mode in bot_message_handler
Refused(sender_id, chat_id) ==
    /\ cfg.private_mode
    /\ sender_id \notin private_whitelist(cfg)
    /\ get_share_id(chat_id) \notin private_whitelist(cfg)

IsAdminChat_any(chat_id) == TRUE

\* event.chat_id != self._admin chooses _normal_msg_handler
IsAdminChat(chat_id) == chat_id = AdminId

NormalNames == {"text", "/search", "/random", "/chats"}
AdminNames == {"/download_chat", "/monitor_chat", "/clear", "/refresh_chat_names"}

\* the chat an admin command names, 0 for none
NamedChats == {0, 12}

\* the reply of a handler that changes nothing else
OnlyReply(kind, op) ==
    /\ reply' = [kind |-> kind]
    /\ last' = Done(op, "none", FALSE)
    /\ UNCHANGED <<index, monitored_chats, newest_msg, monitor_all, bf, schema, redis, cfg,
                   titles>>

\* /chats: a button with the title of every monitored chat
ChatsCmd ==
    /\ reply' = [kind |-> "chats", chats |-> monitored_chats]
    /\ titles' = titles \cup monitored_chats
    /\ last' = Done("chats", "none", FALSE)
    /\ UNCHANGED <<index, monitored_chats, newest_msg, monitor_all, bf, schema, redis, cfg>>

\* /refresh_chat_names: session.refresh_translate_table()
RefreshChatNames ==
    /\ titles' = Dialogs
    /\ reply' = [kind |-> "refreshed"]
    /\ last' = Done("refresh_chat_names", "none", FALSE)
    /\ UNCHANGED <<index, monitored_chats, newest_msg, monitor_all, bf, schema, redis, cfg>>

\* _normal_msg_handler: a command that is none of its own is an unknown command
NormalMsg(chat_id, name, q, has_text, chats) ==
    CASE name = "/random" -> RandomCmd
      [] name = "/chats" -> ChatsCmd
      [] name = "/search" -> SearchCmd(chat_id, TRUE, has_text, q, chats)
      [] name = "text" -> SearchCmd(chat_id, FALSE, TRUE, q, chats)
      [] OTHER -> OnlyReply("unknown_command", "unknown_command")

\* _admin_msg_handler for its own commands, naming the chat c or none
AdminMsg(name, c, full_range) ==
    CASE name = "/download_chat" ->
            IF c = 0 THEN OnlyReply("no_chat", "download")
            ELSE DownloadChat(c, DefaultMinId,
                              IF full_range THEN DefaultMaxId ELSE MaxMsgId + 1)
      [] name = "/monitor_chat" ->
            IF c = 0 THEN OnlyReply("no_chat", "monitor") ELSE MonitorChat(c)
      [] name = "/clear" -> IF c = 0 THEN ClearAll ELSE ClearChats(<<c>>)
      [] OTHER -> RefreshChatNames

\* bot_message_handler for a message that is not the bot's own and, in a group,
\* mentions the bot
BotMessage(sender_id, chat_id, name, q, has_text, chats, c, full_range) ==
    /\ Serving
    /\ IF Refused(sender_id, chat_id)
       THEN OnlyReply("refused", "refused")
       ELSE IF IsAdminChat(chat_id) /\ name \in AdminNames
       THEN AdminMsg(name, c, full_range)
       ELSE NormalMsg(chat_id, name, q, has_text, chats)

\* the index at the start: empty or with one record of a live handler
BotIndexes == UNION {[1..n -> {d \in StoredDocs : d.chat_id = d.url[2]}] : n \in 0..1}

InitBot ==
    /\ schema = IndexMsgSchema
    /\ index \in BotIndexes
    /\ monitored_chats = list_indexed_chats(index)
    /\ newest_msg = [s \in ShareIds |-> NoMsg]
    /\ monitor_all = FALSE
    /\ bf = NoTask
    /\ last = Done("open", "none", FALSE)
    /\ reply = NoReply
    /\ redis = <<>>
    /\ cfg \in [private_mode : BOOLEAN, admin_by_name : BOOLEAN]
    /\ titles = KnownTitles

\* the messages sent to the bot: every command, searches for one word in the
\* group; the chats that are downloaded hold messages without text
NextBot ==
    \/ \E sender_id \in Senders, chat_id \in BotChats, name \in NormalNames \cup AdminNames,
          has_text \in BOOLEAN, c \in NamedChats, full_range \in BOOLEAN :
          /\ chat_id \in {sender_id, GroupChatId}
          /\ (name # "/search" => has_text)
          /\ (name # "/download_chat" => full_range)
          /\ (name \notin AdminNames => c = 0)
          /\ (name \in {"text", "/search"} => chat_id = GroupChatId)
          /\ BotMessage(sender_id, chat_id, name, "foo", has_text, NoChats, c, full_range)
    \/ BackfillStep(<<>>)
    \/ BackfillCommit

SpecBot == InitBot /\ [][NextBot]_vars

-----------------------------------------------------------------------------
(* Searches and page turns on an index that is being served                 *)

InitSearch ==
    /\ schema = IndexMsgSchema
    /\ index \in StoredIndexes
    /\ monitored_chats = list_indexed_chats(index)
    /\ newest_msg = [s \in ShareIds |-> NoMsg]
    /\ monitor_all = FALSE
    /\ bf = NoTask
    /\ last = Done("open", "none", FALSE)
    /\ reply = NoReply
    /\ redis = <<>>
    /\ cfg = DefaultCfg
    /\ titles = KnownTitles

NextSearch ==
    \/ \E c \in Senders, slash, has_text \in BOOLEAN, q \in QueryStrs,
          chats \in SelectedChats :
          SearchCmd(c, slash, has_text, q, chats)
    \/ \E c \in Senders, m \in 1..MaxSearches, page_num \in Pages :
          SearchPage(c, m, page_num)

SpecSearch == InitSearch /\ [][NextSearch]_vars

-----------------------------------------------------------------------------
(* The earlier revisions of the indexer: src/indexer.py and                  *)
(* src/src/indexer.py, on an index of their schema                          *)

\* the documents of the earlier schema have no sender
OldDocs == {d \in StoredDocs : d.sender = ""}

OldIndexes == UNION {[1..n -> OldDocs] : n \in 0..MaxDocs}

\* the urls update is called with; no stored document has the last one
OldUrls == {Url(12, 2), Url(12, 3)}

InitOld ==
    /\ schema = OldSchema
    /\ index \in OldIndexes
    /\ monitored_chats = {}
    /\ newest_msg = [s \in ShareIds |-> NoMsg]
    /\ monitor_all = FALSE
    /\ bf = NoTask
    /\ last = Done("start", "none", FALSE)
    /\ reply = NoReply
    /\ redis = <<>>
    /\ cfg = DefaultCfg
    /\ titles = KnownTitles

\* src/indexer.py Indexer.update: document = searcher.document(url=url) is None
\* without a document, and document['chat_id'] inside the with block of the
\* writer raises TypeError; the writer is cancelled by the with statement
update_of_fields(ix, content, url) ==
    IF DocsWithUrl(ix, url) = {} THEN [ix |-> ix, err |-> "TypeError"]
    ELSE [ix |-> update_document(ix, IndexMsg(content, url, document(ix, url).chat_id,
                                              document(ix, url).post_time, "")),
          err |-> "none"]

\* src/src/indexer.py Indexer.update: msg_dict['content'] = content on None
\* raises TypeError inside the with block of the writer
update_of_dict(ix, content, url) ==
    IF DocsWithUrl(ix, url) = {} THEN [ix |-> ix, err |-> "TypeError"]
    ELSE [ix |-> update_document(ix, [document(ix, url) EXCEPT !.content = content]),
          err |-> "none"]

\* a call of update of src/indexer.py
UpdateOfFields(content, url) ==
    LET r == update_of_fields(index, content, url)
    IN  /\ index' = r.ix
        /\ last' = Done("src/indexer.py update", r.err, DocsWithUrl(index, url) # {})
        /\ UNCHANGED <<monitored_chats, newest_msg, monitor_all, schema, reply, redis, cfg, titles, bf>>

\* a call of update of src/src/indexer.py
UpdateOfDict(content, url) ==
    LET r == update_of_dict(index, content, url)
    IN  /\ index' = r.ix
        /\ last' = Done("src/src/indexer.py update", r.err, DocsWithUrl(index, url) # {})
        /\ UNCHANGED <<monitored_chats, newest_msg, monitor_all, schema, reply, redis, cfg, titles, bf>>

\* a call of delete, the same in both revisions
DeleteOld(url) ==
    /\ index' = delete(index, url)
    /\ last' = Done("delete", "none", DocsWithUrl(index, url) # {})
    /\ UNCHANGED <<monitored_chats, newest_msg, monitor_all, schema, reply, redis, cfg, titles, bf>>

NextOld ==
    \/ \E t \in Texts \ {<<>>}, url \in OldUrls : UpdateOfFields(extract_text(t), url)
    \/ \E t \in Texts \ {<<>>}, url \in OldUrls : UpdateOfDict(extract_text(t), url)
    \/ \E url \in OldUrls : DeleteOld(url)

SpecOld == InitOld /\ [][NextOld]_vars

-----------------------------------------------------------------------------
(* Claims *)

\* C1: the store holds at most one record per url.
C1_OneRecordPerUrl ==
    \A i, j \in 1..Len(index) : index[i].url = index[j].url => i = j

\* C2: an update of an existing record replaces one record with that url by the
\* same record with the new content (url, chat_id, post_time and sender kept)
\* and leaves every other record as it was; under LockError nothing changes.
C2_UpdateOnlyContent ==
    [][last'.op = "update" =>
       \A c \in LiveChatIds, m \in MsgIds, t \in Texts :
          LET url == Url(get_share_id(c), m)
              hit == DocsWithUrl(index, url)
          IN  (MessageEdited(c, m, t) /\ should_monitor(c)
                 /\ extract_text(t) # <<>> /\ hit # {})
              => \/ Locked /\ index' = index /\ last'.err = "LockError"
                 \/ /\ ~Locked
                    /\ last'.err = "none"
                    /\ \E i \in hit :
                          index' = RemoveDocs(index, {i})
                                     \o <<[index[i] EXCEPT !.content = extract_text(t)]>>
      ]_vars

C2_Witness ==
    /\ last = Done("update", "none", TRUE)
    /\ Len(index) = 2
    /\ index[1].url = index[2].url

\* C3: an update for a url without record raises nothing and leaves the store
\* unchanged, also while a backfill holds the writer.
C3_UpdateAbsentNoOp ==
    [][last'.op = "update" =>
       \A c \in LiveChatIds, m \in MsgIds, t \in Texts :
          (MessageEdited(c, m, t) /\ should_monitor(c) /\ extract_text(t) # <<>>
             /\ DocsWithUrl(index, Url(get_share_id(c), m)) = {})
          => index' = index /\ last' = Done("update", "none", FALSE)
      ]_vars

C3_Witness ==
    /\ last = Done("update", "none", FALSE)
    /\ Locked
    /\ index # <<>>

UrlsOf(c, ids) == {Url(get_share_id(c), m) : m \in ids}

\* C4 as claimed: a delete never raises, removes the records with the url and
\* leaves the store as it was when there is none.
C4_DeleteNeverFails ==
    [][last'.op = "delete" =>
       \A c \in LiveChatIds, ids \in SUBSET MsgIds :
          (MessageDeleted(TRUE, c, ids) /\ should_monitor(c))
          => /\ last'.err = "none"
             /\ \A u \in UrlsOf(c, ids) : DocsWithUrl(index', u) = {}
      ]_vars

\* C4 amended: with the writer lock free a delete raises nothing, removes every
\* record with the url, keeps the others in order, and changes nothing when
\* there is no such record (so a second delete changes nothing); while a
\* backfill holds the lock it raises LockError and changes nothing.
C4_DeleteIdempotent ==
    [][last'.op = "delete" =>
       \A c \in LiveChatIds, ids \in SUBSET MsgIds :
          (MessageDeleted(TRUE, c, ids) /\ should_monitor(c))
          => \/ Locked /\ last'.err = "LockError" /\ index' = index
             \/ /\ ~Locked
                /\ last'.err = "none"
                /\ \A u \in UrlsOf(c, ids) : DocsWithUrl(index', u) = {}
                /\ index' = RemoveDocs(index,
                               {i \in 1..Len(index) : index[i].url \in UrlsOf(c, ids)})
                /\ (\A u \in UrlsOf(c, ids) : DocsWithUrl(index, u) = {}) => index' = index
      ]_vars

C4_Witness ==
    /\ last = Done("delete", "none", FALSE)
    /\ ~Locked
    /\ index # <<>>

RECURSIVE ConcatPages(_, _, _, _, _)
ConcatPages(ix, q, f, len, upto) ==
    IF upto = 0 THEN <<>>
    ELSE ConcatPages(ix, q, f, len, upto - 1) \o search(ix, q, f, len, upto).hits

\* the records the query q matches within the chats f
Matches(q, f) ==
    {i \in 1..Len(index) :
        /\ q \in ContentTerms(index[i].content)
        /\ f.given /\ f.ids # <<>> => ChatIdTerm(index[i].chat_id) \in Range(f.ids)}

\* C5: the pages 1..ceil(N/L) of a query hold, one after the other, each of its N
\* matching documents once, newest first, and each page reports total_results = N.
C5_PaginationComplete ==
    \A q \in Words, f \in InChats, len \in PageLens :
        LET N == Cardinality(Matches(q, f))
            all == ConcatPages(index, q, f, len, Ceil(N, len))
        IN  /\ Len(all) = N
            /\ Range(all) = Matches(q, f)
            /\ \A k \in 1..(Len(all) - 1) :
                  index[all[k]].post_time >= index[all[k + 1]].post_time
            /\ \A p \in 1..Ceil(N, len) : search(index, q, f, len, p).total_results = N

C5_Witness ==
    /\ Cardinality(Matches("foo", NoChats)) = 2
    /\ index[1].post_time < index[2].post_time

\* C6: with N >= 1 matches is_last_page is true on page ceil(N/L) and false on
\* every page before it.
C6_LastPageFlag ==
    \A q \in Words, f \in InChats, len \in PageLens :
        LET N == Cardinality(Matches(q, f)) IN
        \A p \in 1..Ceil(N, len) :
            search(index, q, f, len, p).is_last_page <=> (p = Ceil(N, len))

C6_Witness ==
    /\ Cardinality(Matches("foo", Chats(<<12>>))) = 2
    /\ ~search(index, "foo", Chats(<<12>>), 1, 1).is_last_page

\* C7: a page beyond the last one is empty, is_last_page is true and
\* total_results is the number of matches.
C7_BeyondLastPageEmpty ==
    \A q \in Words, f \in InChats, len \in PageLens, p \in Pages :
        LET N == Cardinality(Matches(q, f))
            r == search(index, q, f, len, p)
        IN  p > Ceil(N, len) =>
               r.hits = <<>> /\ r.is_last_page /\ r.total_results = N

\* C8: with a non-empty chat filter every hit has its chat_id in the filter, and
\* total_results counts the matching records whose chat_id is in the filter.
C8_FilterRespected ==
    \A q \in Words, f \in InChats, len \in PageLens, p \in Pages :
        LET r == search(index, q, f, len, p) IN
        (f.given /\ f.ids # <<>>) =>
           /\ \A k \in 1..Len(r.hits) : index[r.hits[k]].chat_id \in Range(f.ids)
           /\ r.total_results <=
                 Cardinality({i \in 1..Len(index) :
                                 /\ q \in ContentTerms(index[i].content)
                                 /\ index[i].chat_id \in Range(f.ids)})

\* C9: while the write transaction of a backfill is open, a standalone add, an
\* update of an existing record, a delete, a scoped clear and a second backfill
\* raise LockError and leave the committed index unchanged.
C9_WritesFailWhileBackfillOpen ==
    [][(/\ bf.pc = "run"
        /\ last'.op \in {"new_message", "update", "delete", "clear", "download"}
        /\ ~(last'.op = "update" /\ ~last'.found)
        /\ last'.err # "NotEmpty")
       => last'.err = "LockError" /\ index' = index
      ]_vars

\* what search, count_by_query, is_empty and list_indexed_chats read from ix
Reads(ix) ==
    [chats  |-> list_indexed_chats(ix),
     counts |-> [c \in ShareIds |-> count_by_query(ix, c)],
     empty  |-> [c \in AdminChatIds |-> is_empty(ix, c)],
     pages  |-> [q \in Words |-> search(ix, q, NoChats, MaxPageLen, 1)]]

C11_RerunIdempotent ==
    [][(/\ last'.op = "commit" /\ last'.err = "none"
        /\ bf.pc = "run"
        /\ bf.max_id # DefaultMaxId
        /\ \A k \in 1..Len(bf.buf) : bf.buf[k] \in Range(index))
       => /\ Range(index') = Range(index)
          /\ Len(index') = Len(index)
      ]_vars

\* C12: a backfill that ends on an error has committed every buffered record or
\* none of them, and its write transaction is closed: the writer lock is free.
C12_InterruptedBackfillClosed ==
    [][(last'.op = "backfill" /\ last'.err = "Exception")
       => /\ index' = index \/ index' = Commit(index, bf.buf)
          /\ ~bf'.lock
      ]_vars

\* C13: once a handler that raised an error has finished and no backfill is
\* running, a new message of a monitored chat is added to the index.
C13_MonitoringSurvivesErrors ==
    [][(last.err # "none" /\ bf.pc # "run" /\ last'.op = "new_message")
       => /\ last'.err = "none"
          /\ Len(index') = Len(index) + 1
          /\ index'[Len(index')].url = newest_msg'[index'[Len(index')].chat_id].url
      ]_vars

\* the positions, in the concatenated pages of the query w, of the hits with url
HitsWithUrl(ix, w, len, url) ==
    LET N == search(ix, w, NoChats, len, 1).total_results
        all == ConcatPages(ix, w, NoChats, len, Ceil(N, len))
    IN  {k \in 1..Len(all) : ix[all[k]].url = url}

C15_WritesInIssueOrder ==
    [][/\ (/\ last.op = "new_message" /\ last.err = "none"
           /\ last'.op = "delete" /\ last'.err = "none")
          => \A c \in LiveChatIds, ids \in SUBSET MsgIds :
                (/\ MessageDeleted(TRUE, c, ids) /\ should_monitor(c)
                 /\ index[Len(index)].url \in UrlsOf(c, ids))
                => DocsWithUrl(index', index[Len(index)].url) = {}
       /\ (/\ last.op = "delete" /\ last.err = "none"
           /\ last'.op = "new_message" /\ last'.err = "none")
          => /\ Len(index') = Len(index) + 1
             /\ SubSeq(index', 1, Len(index)) = index
             /\ DocsWithUrl(index', index'[Len(index')].url) # {}
       /\ (/\ last.op = "new_message" /\ last.err = "none"
           /\ last'.op = "update" /\ last'.err = "none")
          => \A c \in LiveChatIds, m \in MsgIds, t \in Texts :
                (/\ MessageEdited(c, m, t) /\ should_monitor(c)
                 /\ extract_text(t) # <<>>
                 /\ index[Len(index)].url = Url(get_share_id(c), m))
                => /\ index'[Len(index')].url = Url(get_share_id(c), m)
                   /\ index'[Len(index')].content = extract_text(t)
                   /\ Len(index') = Len(index)
      ]_vars

C15_Witness ==
    /\ last = Done("delete", "none", TRUE)
    /\ newest_msg[13].url = Url(13, 2)
    /\ DocsWithUrl(index, Url(13, 2)) = {}
    /\ ~Locked

\* C16: a clear with chat ids that gets the writer removes every record whose
\* chat_id is one of them and leaves the other records as they were; a clear
\* without chat ids leaves the store empty.
C16_ClearScoped ==
    [][/\ (last'.op = "clear" /\ last'.err # "LockError")
          => \A cs \in ClearLists :
                ClearChats(cs)
                => index' = RemoveDocs(index, {i \in 1..Len(index) :
                                                  index[i].chat_id \in Range(cs)})
       /\ last'.op = "clear_all" => index' = <<>>
      ]_vars

\* C19: list_indexed_chats returns the set of the chat_id values of the records
\* in the store.
C19_ListedChatsExact ==
    list_indexed_chats(index) = {index[i].chat_id : i \in 1..Len(index)}

\* C17: a start with from_scratch leaves an empty index of the expected schema
\* whatever the directory held; a start without it on an index of the expected
\* schema leaves every record as it was.
C17_OpenReset ==
    [][last'.op = "open" =>
       /\ last'.found
          => index' = <<>> /\ schema' = IndexMsgSchema /\ last'.err = "none"
       /\ (~last'.found /\ schema = IndexMsgSchema)
          => index' = index /\ schema' = schema /\ last'.err = "none"
      ]_vars

C17_Witness ==
    /\ last = Done("open", "none", FALSE)
    /\ schema = IndexMsgSchema
    /\ Len(index) = 2

\* C18: a start without from_scratch on an index whose schema differs from the
\* expected one, in its field names or in the type of a field, fails with the
\* schema assertion and leaves the index as it was.
C18_SchemaMismatchFails ==
    [][(last'.op = "open" /\ ~last'.found /\ schema \notin {NoIndex, IndexMsgSchema})
       => /\ last'.err = "AssertionError"
          /\ index' = index
          /\ schema' = schema
      ]_vars

\* C20: /random leaves the store as it was; on an empty store
\* retrieve_random_document raises IndexError and the reply says that the index
\* is empty, on a non-empty store the reply shows a record of the store.
C20_RandomDocument ==
    [][last'.op = "random" =>
       /\ index' = index
       /\ IF index = <<>>
          THEN last'.err = "IndexError" /\ reply' = [kind |-> "empty"]
          ELSE /\ last'.err = "none"
               /\ reply'.kind = "random"
               /\ reply'.msg \in Range(index)
      ]_vars

C20_Witness ==
    /\ last = Done("random", "IndexError", FALSE)
    /\ index = <<>>
    /\ reply = [kind |-> "empty"]

\* C21: every hit of a search carries a snippet that is not empty, is made of
\* the hit's own content and marks at least one term of the query, also when
\* the query matched through a field-qualified clause.
C21_SnippetMarksMatch ==
    reply.kind = "results" =>
        \A k \in 1..Len(reply.hits) :
            LET h == reply.hits[k]
            IN  /\ h.highlighted # <<>>
                /\ [i \in 1..Len(h.highlighted) |-> h.highlighted[i].text] = h.msg.content
                /\ \E i \in 1..Len(h.highlighted) : h.highlighted[i].matched

\* C22: on a non-empty index a search whose query text is malformed, or a
\* /search without query text, ends in an error that is replied to the user,
\* leaves the index, the monitored chats and the stored pagination keys as they
\* were, and the bot goes on serving.
C22_MalformedQueryFails ==
    [][\A c \in Senders, slash, has_text \in BOOLEAN, q \in QueryStrs,
          chats \in SelectedChats :
          (/\ SearchCmd(c, slash, has_text, q, chats)
           /\ ~is_index_empty(index)
           /\ (q \in Malformed \/ ~has_text))
          => /\ last'.err # "none"
             /\ reply'.kind = "error"
             /\ index' = index
             /\ monitored_chats' = monitored_chats
             /\ redis' = redis
             /\ Serving'
      ]_vars

\* C23: a search whose chat filter is present but empty returns no hit.
C23_EmptyFilterNoHits ==
    (Serving /\ schema = IndexMsgSchema) =>
        \A q \in QueryStrs, L \in PageLens, p \in Pages :
            LET result == search(index, q, Chats(<<>>), L, p)
            IN  result.hits = <<>> /\ result.total_results = 0

\* C24: every live event from a monitored chat is reflected in the index, also
\* when it arrives while a backfill holds the write transaction: a new message
\* with text has its record, an edit of a record and a delete are applied. The
\* handlers keep no event for later, so an event is reflected when its handler
\* ends or never.
C24_LiveEventsReflected ==
    [][/\ last'.op = "new_message" =>
            \E s \in ShareIds :
                /\ newest_msg'[s] # newest_msg[s]
                /\ DocsWithUrl(index', newest_msg'[s].url) # {}
       /\ last'.op \in {"update", "delete"} => last'.err = "none"
      ]_vars

\* C25: once download_history has ended, by its commit or by an exception, the
\* write lock is free, so that the next writer is opened without LockError.
C25_LockFreeAfterBackfill == bf.pc # "run" => ~Locked

\* C26: a clear of the whole index while the transaction of a backfill is open
\* fails with LockError and leaves the index and the transaction as they were;
\* no backfill commits after its index was removed under it.
C26_ClearAllSerialized ==
    [][/\ (last'.op = "clear_all" /\ bf.pc = "run" /\ bf.lock) =>
            /\ last'.err = "LockError"
            /\ index' = index
            /\ monitored_chats' = monitored_chats
            /\ bf' = bf
       /\ last'.op = "commit" => bf.lock
      ]_vars

\* C27: every record, stored by a live handler or by a backfill, carries as
\* chat_id the share id of its chat, the id its url is made of and that
\* monitored_chats holds.
C27_ChatIdIsShareId ==
    \A d \in Range(index) : d.chat_id = d.url[2]

\* C28: /download_chat with the default id range for a chat that has a record
\* in the index ends with an error, starts no backfill and leaves the index and
\* the monitored chats as they were.
C28_DownloadOfIndexedChatRejected ==
    [][\A c \in DownloadChatIds :
          (/\ DownloadChat(c, DefaultMinId, DefaultMaxId)
           /\ \E d \in Range(index) : d.url[2] = get_share_id(c))
          => /\ last'.err # "none"
             /\ bf' = bf
             /\ index' = index
             /\ monitored_chats' = monitored_chats
      ]_vars

\* _should_monitor is false for the chat: in selective mode it is not in
\* monitored_chats, in monitor_all mode it is in excluded_chats
NotMonitored(chat_id) ==
    IF monitor_all THEN get_share_id(chat_id) \in excluded_chats
    ELSE get_share_id(chat_id) \notin monitored_chats

\* C29: a new-message, edit or delete event from a chat that is not monitored,
\* and a delete event without chat id, leave the index and newest_msg as they
\* were.
C29_UnmonitoredEventsIgnored ==
    [][/\ \A c \in SessionChatIds, m \in MsgIds, t \in Texts :
            (NotMonitored(c) /\ (NewMessage(c, m, t) \/ MessageEdited(c, m, t)))
            => index' = index /\ newest_msg' = newest_msg
       /\ \A h \in BOOLEAN, c \in SessionChatIds, ids \in SUBSET MsgIds :
            ((~h \/ NotMonitored(c)) /\ MessageDeleted(h, c, ids))
            => index' = index /\ newest_msg' = newest_msg
      ]_vars

\* monitor_all mode with the messages of chat 13 in the index: the last event
\* handled was one that is not indexed, and nothing of the excluded chat is kept
C29_Witness ==
    /\ monitor_all
    /\ monitored_chats = {}
    /\ last = Done("other", "none", FALSE)
    /\ Len(index) = MaxDocs
    /\ newest_msg[BotChatId] = NoMsg

\* C30: no message of the chat with the bot is in the index, in monitor_all
\* mode and in selective mode, whatever chats the admin has monitored.
C30_BotChatNeverIndexed ==
    \A d \in Range(index) : d.url[2] # BotChatId

\* C31: after a start without reset on an index of the expected schema the
\* monitored chats are the chats that have a record in the index.
C31_RestartMonitorsIndexedChats ==
    [][(last'.op = "open" /\ ~last'.found /\ schema = IndexMsgSchema)
       => monitored_chats' = {index'[i].url[2] : i \in 1..Len(index')}
      ]_vars

\* C32: clear with a list of chat ids, when no other writer is open, ends
\* without error for every list; afterwards no listed chat is monitored and
\* none has a record under its id.
C32_ClearListNeverFails ==
    [][\A cs \in ClearLists :
          (ClearChats(cs) /\ ~Locked)
          => /\ last'.err = "none"
             /\ \A c \in Range(cs) :
                   c \notin monitored_chats' /\ DocsOfChat(index', c) = {}
      ]_vars

\* C34: newest_msg of a chat is the record with the greatest post_time among
\* the records added for the chat, by live events and by backfills in any order.
C34_NewestMsgIsLatest ==
    \A s \in ShareIds :
        \A d \in Range(index \o bf.buf) :
            d.url[2] = s => d.post_time <= newest_msg[s].post_time

\* C37: in the earlier revisions of the indexer an update for a url that has
\* no record raises no error and leaves the index as it was.
C37_OldUpdateAbsentNoOp ==
    [][(last'.op \in {"src/indexer.py update", "src/src/indexer.py update"} /\ ~last'.found)
       => last'.err = "none" /\ index' = index
      ]_vars

\* C33: a result message gets keys of its own, under which the query text and
\* the chat filter of its request are stored and never overwritten; a page turn
\* on a result message searches with the text and filter stored for that
\* message and the page number of the button, and stores nothing.
C33_PageTurnRerunsRequest ==
    [][/\ last'.op = "search" =>
            \A c \in Senders, slash, has_text \in BOOLEAN, q \in QueryStrs,
              chats \in SelectedChats :
            (SearchCmd(c, slash, has_text, q, chats) /\ last'.found)
            => /\ \E m \in 1..MaxSearches :
                     /\ <<c, m>> \notin DOMAIN redis
                     /\ DOMAIN redis' = DOMAIN redis \cup {<<c, m>>}
                     /\ redis'[<<c, m>>].query_text = q
                     /\ split_ints(redis'[<<c, m>>].query_chats) = chats
               /\ \A k \in DOMAIN redis : redis'[k] = redis[k]
       /\ last'.op = "search_page" =>
            \A c \in Senders, m \in 1..MaxSearches, p \in Pages :
            SearchPage(c, m, p)
            => /\ redis' = redis
               /\ reply' = Results(index, redis[<<c, m>>].query_text,
                                   split_ints(redis[<<c, m>>].query_chats), p)
       /\ last'.op \notin {"search", "search_page"} => redis' = redis
      ]_vars

\* the second page of the second result message of a chat was asked for, the
\* two messages standing for different requests
C33_Witness ==
    /\ last = Done("search_page", "none", TRUE)
    /\ reply.kind = "results"
    /\ reply.page = 2
    /\ \E c \in Senders :
          /\ {<<c, 1>>, <<c, 2>>} \subseteq DOMAIN redis
          /\ redis[<<c, 1>>] # redis[<<c, 2>>]
          /\ redis[<<c, 2>>].query_chats # <<>>
          /\ reply.hits = SearchHits(index, redis[<<c, 2>>].query_text,
                                      search(index, redis[<<c, 2>>].query_text,
                                             split_ints(redis[<<c, 2>>].query_chats),
                                             page_len, 2).hits)

\* C35: in private mode a message whose sender and whose chat's share id are
\* both off the whitelist is answered with the refusal and nothing else is done
\* for it; a message of the configured admin is never answered with the refusal.
C35_PrivateModeWhitelist ==
    [][/\ cfg.private_mode =>
            \A sender_id \in Senders, chat_id \in BotChats, name \in NormalNames \cup AdminNames,
              has_text \in BOOLEAN, c \in NamedChats :
            (/\ chat_id \in {sender_id, GroupChatId}
             /\ sender_id \notin ConfigWhitelist \cup {AdminId}
             /\ get_share_id(chat_id) \notin ConfigWhitelist \cup {AdminId}
             /\ BotMessage(sender_id, chat_id, name, "foo", has_text, NoChats, c, TRUE))
            => /\ reply'.kind = "refused"
               /\ UNCHANGED <<index, monitored_chats, newest_msg, bf, redis, titles>>
       /\ last'.op = "refused" =>
            \A chat_id \in {AdminId, GroupChatId}, name \in NormalNames \cup AdminNames :
               ~BotMessage(AdminId, chat_id, name, "foo", TRUE, NoChats, 0, TRUE)
      ]_vars

\* C36: a message with the text of /download_chat, /monitor_chat, /clear or
\* /refresh_chat_names that comes from a chat other than the admin chat leaves
\* the index, the monitored set, the running download and the title cache as
\* they were: no step that changes one of them is the handling of such a message.
C36_AdminCommandsOnlyFromAdminChat ==
    [][~UNCHANGED <<index, monitored_chats, bf, titles>>
       => \A sender_id \in Senders, chat_id \in BotChats \ {AdminId}, name \in AdminNames,
            c \in NamedChats, full_range \in BOOLEAN :
            chat_id \in {sender_id, GroupChatId}
            => ~BotMessage(sender_id, chat_id, name, "foo", TRUE, NoChats, c, full_range)
      ]_vars

\* the text of an admin command was sent from another chat, by a sender who is
\* not refused, while the index held a record
C36_Witness ==
    /\ last = Done("unknown_command", "none", FALSE)
    /\ reply.kind = "unknown_command"
    /\ index # <<>>
    /\ monitored_chats # {}

====
